---- MODULE Spec2Model ----
(***************************************************************************)
(* Model of src/logging/serializers.ts (octonet): the deep redaction       *)
(* engine (sanitized / deepSanitizeObj), the entity normalizers            *)
(* (axiosRequest, axiosResponse, expressRequest, expressResponse), the     *)
(* error serializer (serializeErr / getFullErrorStack) and the registry    *)
(* defaultSerializers.                                                     *)
(*                                                                         *)
(* JavaScript objects have identity, may be reached by several routes and  *)
(* are mutated in place, so the model keeps an explicit heap: a sequence   *)
(* of nodes addressed by their index. A value is a primitive or a          *)
(* reference into the heap.                                                *)
(***************************************************************************)
EXTENDS Integers, Sequences, FiniteSets, TLC

VARIABLES
  heap,    \* the JavaScript heap: Seq of object / array nodes
  fn,      \* which serializer of defaultSerializers(...paths) is exercised
  data,    \* the raw entity handed to the serializer (a value)
  paths,   \* the variadic ...paths the serializers close over
  pre,     \* the deep content of the entity before any call (a tree)
  pc,      \* "start", "once" (one call returned), "twice", "threw"
  out,     \* value returned by the first call
  out2     \* value returned by the second call (event serializer on out)

vars == <<heap, fn, data, paths, pre, pc, out, out2>>

---------------------------------------------------------------------------
(* Bounds of the model *)

\* Largest size of a generated payload: its objects, arrays and leaves, and
\* its further references to an object or array it already holds.
MaxNodes == 4
\* Longest path list handed to defaultSerializers.
MaxPaths == 2
\* Longest causal chain of errors.
MaxChain == 3
\* Largest size of a request or response body.
MaxBody == 2

---------------------------------------------------------------------------
(* Values and heap nodes *)

Undef == [kind |-> "undef"]
Num(n) == [kind |-> "num", v |-> n]
\* A string, as the sequence of its pieces; Text(<< >>) is "".
Text(s) == [kind |-> "text", s |-> s]
\* A string holding the JSON text of literal t.
Json(t) == [kind |-> "json", t |-> t]
\* A non-empty string that is not valid JSON.
BadJson == [kind |-> "badjson"]
\* A zero-argument function returning r.
Fn(r) == [kind |-> "fn", ret |-> r]
Ref(a) == [kind |-> "ref", a |-> a]

\* An object: proto is the prototype ("Object" for a plain object), f its
\* readable properties, ks their names in insertion order, ne those of them
\* that are not own enumerable.
ObjNode(proto, f, ks, ne) ==
  [kind |-> "obj", proto |-> proto, f |-> f, ks |-> ks, ne |-> ne]
ArrNode(e) == [kind |-> "arr", e |-> e]
NoFields == [k \in {} |-> Undef]

\* The elements of sequence s.
Range(s) == {s[i] : i \in DOMAIN s}

IsRef(v) == v.kind = "ref"
IsObj(h, v) == IsRef(v) /\ h[v.a].kind = "obj"
IsArr(h, v) == IsRef(v) /\ h[v.a].kind = "arr"

\* JavaScript truthiness: !v is ~Truthy(v).
Truthy(v) ==
  CASE v.kind = "undef" -> FALSE
    [] v.kind = "num" -> v.v # 0
    [] v.kind = "text" -> v.s # << >>
    [] OTHER -> TRUE

\* Property read v[k] for a property name k that is no array index. Reading a
\* property of undefined throws in JavaScript: callers guard it.
Get(h, v, k) ==
  IF IsObj(h, v) /\ k \in DOMAIN h[v.a].f THEN h[v.a].f[k] ELSE Undef

\* Object.keys(v): the own enumerable names in insertion order; for an array
\* its indices; for a string its character positions (the model only needs
\* how many).
ObjectKeys(h, v) ==
  CASE IsObj(h, v) -> SelectSeq(h[v.a].ks, LAMBDA k : k \notin h[v.a].ne)
    [] IsArr(h, v) -> [i \in DOMAIN h[v.a].e |-> i]
    [] v.kind \in {"json", "badjson"} -> <<0>>
    [] v.kind = "text" -> [i \in DOMAIN v.s |-> i]
    [] OTHER -> << >>

\* n[k] = v on object node n: a new name goes last, a known one keeps its place.
Put(n, k, v) ==
  [n EXCEPT !.f = (k :> v) @@ @,
            !.ks = IF k \in DOMAIN n.f THEN @ ELSE Append(@, k)]

\* node[k] = v on the object at address a
SetField(h, a, k, v) == [h EXCEPT ![a] = Put(@, k, v)]

\* array[i] = v on the array at address a
SetElem(h, a, i, v) == [h EXCEPT ![a].e[i] = v]

\* delete node[k]; on an array a non-index name is never an own property.
DeleteField(h, a, k) ==
  IF h[a].kind = "obj"
  THEN [h EXCEPT ![a].f = [x \in DOMAIN @ \ {k} |-> @[x]],
                 ![a].ks = SelectSeq(@, LAMBDA x : x # k),
                 ![a].ne = @ \ {k}]
  ELSE h

\* A property the caller left out of an object literal.
Absent == [kind |-> "absent"]

RECURSIVE PutAll(_, _)
\* n[k] = v for each <<k, v>> of props, in turn
PutAll(n, props) ==
  IF props = << >> THEN n
  ELSE PutAll(Put(n, Head(props)[1], Head(props)[2]), Tail(props))

\* The object { k1: v1, k2: v2, ... } of prototype proto, written as the
\* sequence props of <<name, value>>; a property left out is skipped, and of
\* a name written twice the later value stands.
MkObj(proto, props, ne) ==
  LET n == PutAll(ObjNode(proto, NoFields, << >>, {}),
                  SelectSeq(props, LAMBDA p : p[2].kind # "absent"))
  IN [n EXCEPT !.ne = ne \cap DOMAIN n.f]

\* An object literal of the code.
Literal(props) == MkObj("Object", props, {})

---------------------------------------------------------------------------
(* Building a caller's object graph in the heap, and reading one back *)

\* In the description of a graph: one more reference to the object or array
\* at address a, which was built before.
Link(a) == [kind |-> "link", a |-> a]

RECURSIVE Alloc(_, _), AllocFields(_, _, _, _), AllocElems(_, _, _, _)

\* Build the graph that t describes: objects and arrays get their addresses
\* in the order they are met. The result is <<heap, value>>.
Alloc(h, t) ==
  CASE t.kind = "obj" ->
         LET a == Len(h) + 1
             h1 == Append(h, ObjNode(t.proto, NoFields, << >>, {}))
             h2 == AllocFields(h1, t, a, 1)
         IN <<[h2 EXCEPT ![a].ne = t.ne], Ref(a)>>
    [] t.kind = "arr" ->
         LET a == Len(h) + 1
             h1 == Append(h, ArrNode([i \in DOMAIN t.e |-> Undef]))
         IN <<AllocElems(h1, t, a, 1), Ref(a)>>
    [] t.kind = "fn" ->
         LET r == Alloc(h, t.ret) IN <<r[1], Fn(r[2])>>
    [] t.kind = "link" -> <<h, Ref(t.a)>>
    [] OTHER -> <<h, t>>

AllocFields(h, t, a, i) ==
  IF i > Len(t.ks) THEN h
  ELSE LET r == Alloc(h, t.f[t.ks[i]])
       IN AllocFields(SetField(r[1], a, t.ks[i], r[2]), t, a, i + 1)

AllocElems(h, t, a, i) ==
  IF i > Len(t.e) THEN h
  ELSE LET r == Alloc(h, t.e[i])
       IN AllocElems(SetElem(r[1], a, i, r[2]), t, a, i + 1)

\* The deep content of an object: its prototype, properties and which of
\* them are not enumerable. The insertion order is no part of it.
ObjTree(proto, f, ne) == [kind |-> "obj", proto |-> proto, f |-> f, ne |-> ne]
\* The deep content of a plain object with properties f.
Obj(f) == ObjTree("Object", f, {})
\* In a deep content: the object or array up levels above, met again.
Back(up) == [kind |-> "back", up |-> up]

RECURSIVE DerefBelow(_, _, _)
\* The deep content of v below the objects and arrays at addresses anc.
DerefBelow(h, v, anc) ==
  CASE IsRef(v) /\ v.a \in Range(anc) ->
         Back(Len(anc) + 1 - CHOOSE i \in DOMAIN anc : anc[i] = v.a)
    [] IsObj(h, v) ->
         ObjTree(h[v.a].proto,
                 [k \in DOMAIN h[v.a].f |->
                    DerefBelow(h, h[v.a].f[k], Append(anc, v.a))],
                 h[v.a].ne)
    [] IsArr(h, v) ->
         ArrNode([i \in DOMAIN h[v.a].e |->
                    DerefBelow(h, h[v.a].e[i], Append(anc, v.a))])
    [] v.kind = "fn" -> Fn(DerefBelow(h, v.ret, anc))
    [] OTHER -> v

\* The tree a value denotes in heap h: two values are deep-equal when their
\* trees are equal. An object reached by two routes is in the tree twice.
Deref(h, v) == DerefBelow(h, v, << >>)

---------------------------------------------------------------------------
(* lodash: cloneDeep, isPlainObject, unset (serializers.ts line 3) *)

\* Values lodash cannot clone: functions and objects whose tag is not
\* cloneable (Error instances; AxiosHeaders, which sets Symbol.toStringTag).
Uncloneable(h, v) ==
  \/ v.kind = "fn"
  \/ (IsObj(h, v) /\ h[v.a].proto \in {"Error", "AxiosHeaders"})

\* lodash initCloneObject(object): an empty object of the same prototype.
initCloneObject(n) == ObjNode(n.proto, NoFields, << >>, {})

\* lodash initCloneArray(array): a new array of the same length.
initCloneArray(n) == ArrNode([i \in DOMAIN n.e |-> Undef])

\* lodash Stack: the clone made for each object or array cloned so far.
NoStack == [a \in {} |-> Undef]

RECURSIVE baseClone(_, _, _), CloneFields(_, _, _, _, _), CloneElems(_, _, _, _, _)

\* lodash baseClone(value, ..., stack) for a value that has a parent. A
\* primitive is returned as is, and so is an uncloneable value: the copy then
\* shares it with the original. For an object or array the empty result is
\* made first; when the stack holds a clone of value already, that clone is
\* returned (an object reached twice is cloned once, a cycle is closed);
\* otherwise the result is entered in the stack and filled with the clones
\* of the own enumerable properties, or elements. [h, v, stack]
baseClone(h, v, stack) ==
  IF ~IsRef(v) \/ Uncloneable(h, v) THEN [h |-> h, v |-> v, stack |-> stack]
  ELSE
  LET result == Ref(Len(h) + 1)
      h1 == Append(h, IF IsArr(h, v) THEN initCloneArray(h[v.a])
                      ELSE initCloneObject(h[v.a]))
  IN IF v.a \in DOMAIN stack
     THEN [h |-> h1, v |-> stack[v.a], stack |-> stack]
     ELSE LET s1 == (v.a :> result) @@ stack
              r == IF IsArr(h, v)
                   THEN CloneElems(h1, v, result, 1, s1)
                   ELSE CloneFields(h1, v, result, ObjectKeys(h1, v), s1)
          IN [h |-> r.h, v |-> result, stack |-> r.stack]

\* assignValue(result, key, baseClone(value[key], ..., stack)) for each own
\* enumerable key of value. [h, stack]
CloneFields(h, v, result, ks, stack) ==
  IF ks = << >> THEN [h |-> h, stack |-> stack]
  ELSE LET r == baseClone(h, h[v.a].f[Head(ks)], stack)
       IN CloneFields(SetField(r.h, result.a, Head(ks), r.v),
                      v, result, Tail(ks), r.stack)

\* The same for each index of an array. [h, stack]
CloneElems(h, v, result, i, stack) ==
  IF i > Len(h[v.a].e) THEN [h |-> h, stack |-> stack]
  ELSE LET r == baseClone(h, h[v.a].e[i], stack)
       IN CloneElems(SetElem(r.h, result.a, i, r.v), v, result, i + 1, r.stack)

\* cloneDeep(value): at the top level an uncloneable value becomes a new
\* empty object; anything else is cloned by baseClone with a new stack.
\* <<heap, clone>>
cloneDeep(h, v) ==
  IF Uncloneable(h, v)
  THEN LET h2 == Append(h, Literal(<< >>)) IN <<h2, Ref(Len(h2))>>
  ELSE LET r == baseClone(h, v, NoStack) IN <<r.h, r.v>>

\* isPlainObject(v): an object created by the Object constructor or a literal.
isPlainObject(h, v) == IsObj(h, v) /\ h[v.a].proto = "Object"

\* The path strings of the model and the key chain each one spells:
\* lodash's stringToPath splits a path string at its dots.
PathStrings == {"token", "user", "user.token"}

stringToPath(p) ==
  CASE p = "user.token" -> <<"user", "token">>
    [] OTHER -> <<p>>

\* lodash isKey(value, object): a string without dots or brackets is a
\* property name; so is any string that names a property of object itself.
isKey(h, object, p) ==
  \/ Len(stringToPath(p)) = 1
  \/ (IsObj(h, object) /\ p \in DOMAIN h[object.a].f)

\* lodash castPath(value, object)
castPath(h, object, p) ==
  IF isKey(h, object, p) THEN <<p>> ELSE stringToPath(p)

RECURSIVE baseGet(_, _, _)
\* lodash baseGet(object, path): follow the keys while the value is not
\* null or undefined.
baseGet(h, object, path) ==
  IF path = << >> \/ object.kind = "undef" THEN object
  ELSE baseGet(h, Get(h, object, Head(path)), Tail(path))

\* lodash parent(object, path)
parent(h, object, path) ==
  IF Len(path) < 2 THEN object
  ELSE baseGet(h, object, SubSeq(path, 1, Len(path) - 1))

\* lodash unset(object, path) = baseUnset: delete the last key of the cast
\* path from its parent. The result is the heap.
unset(h, object, p) ==
  LET path == castPath(h, object, p)
      par == parent(h, object, path)
  IN IF IsRef(par) THEN DeleteField(h, par.a, path[Len(path)]) ELSE h

---------------------------------------------------------------------------
(* Calls that return or throw: [h, v, thrown] is the heap after the call, *)
(* the value returned, and whether the call threw instead of returning.   *)

Returned(h, v) == [h |-> h, v |-> v, thrown |-> FALSE]
Threw(h) == [h |-> h, v |-> Undef, thrown |-> TRUE]

---------------------------------------------------------------------------
(* deepSanitizeObj and sanitized *)

RECURSIVE UnsetAll(_, _, _)
\* paths.forEach(path => unset(node, path))
UnsetAll(h, node, ps) ==
  IF ps = << >> THEN h
  ELSE UnsetAll(unset(h, node, Head(ps)), node, Tail(ps))

RECURSIVE sanitizeNode(_, _, _, _), SanitizeKeys(_, _, _, _, _), SanitizeItems(_, _, _, _, _)

\* sanitizeNode(node), closed over paths ps: mutates the heap in place.
\* calls holds the calls in progress, each as <<node, heap it began with>>.
\* The code has no guard against meeting a node again: a call that begins
\* as one in progress began repeats it, the recursion has no end and the
\* engine throws a RangeError (stack exhausted). [h, v, thrown]
sanitizeNode(h, node, ps, calls) ==
  IF isPlainObject(h, node)
  THEN IF <<node, h>> \in calls THEN Threw(h)
       ELSE LET h1 == UnsetAll(h, node, ps)
            IN SanitizeKeys(h1, node, ObjectKeys(h1, node), ps,
                            calls \cup {<<node, h>>})
  ELSE IF IsArr(h, node)
  THEN IF <<node, h>> \in calls THEN Threw(h)
       ELSE SanitizeItems(h, node, 1, ps, calls \cup {<<node, h>>})
  ELSE Returned(h, Undef)

\* Object.keys(node).forEach(key => sanitizeNode(node[key])): the names are
\* those node has when the loop begins, each value is read when its turn comes.
SanitizeKeys(h, node, ks, ps, calls) ==
  IF ks = << >> THEN Returned(h, Undef)
  ELSE LET r == sanitizeNode(h, Get(h, node, Head(ks)), ps, calls)
       IN IF r.thrown THEN r
          ELSE SanitizeKeys(r.h, node, Tail(ks), ps, calls)

\* node.forEach(item => sanitizeNode(item))
SanitizeItems(h, node, i, ps, calls) ==
  IF i > Len(h[node.a].e) THEN Returned(h, Undef)
  ELSE LET r == sanitizeNode(h, h[node.a].e[i], ps, calls)
       IN IF r.thrown THEN r
          ELSE SanitizeItems(r.h, node, i + 1, ps, calls)

\* deepSanitizeObj(data, ...paths): returns the clone
deepSanitizeObj(h, d, ps) ==
  LET c == cloneDeep(h, d)
      r == sanitizeNode(c[1], c[2], ps, {})
  IN IF r.thrown THEN r ELSE Returned(r.h, c[2])

\* typeof v === "object" (null is not modelled apart from undefined)
TypeofObject(v) == IsRef(v)

\* The function sanitized(...paths) returns, applied to d
sanitized(h, d, ps) ==
  IF ~Truthy(d) \/ ~TypeofObject(d) \/ ObjectKeys(h, d) = << >>
  THEN Returned(h, d)
  ELSE deepSanitizeObj(h, d, ps)

---------------------------------------------------------------------------
(* Entity normalizers *)

\* typeof v === "string"
TypeofString(v) == v.kind \in {"text", "json", "badjson"}
\* typeof v === "function"
TypeofFunction(v) == v.kind = "fn"

\* ...v in an object literal: the own enumerable properties of v, in order,
\* as a sequence of <<name, value>>
Spread(h, v) ==
  IF IsObj(h, v)
  THEN [i \in DOMAIN ObjectKeys(h, v) |->
          <<ObjectKeys(h, v)[i], h[v.a].f[ObjectKeys(h, v)[i]]>>]
  ELSE << >>

\* Mutant of axiosDefaultHeaders: the patch group is forgotten.
axiosDefaultHeadersNoPatch == <<"common", "delete", "get", "head", "post", "put">>

axiosDefaultHeaders == <<"common", "delete", "get", "head", "post", "put", "patch">>

\* (conf.headers as any)?.toJSON?.(): [v, thrown]
HeadersToJSON(h, conf) ==
  LET hd == Get(h, conf, "headers")
      tj == Get(h, hd, "toJSON")
  IN IF hd.kind = "undef" \/ tj.kind = "undef" THEN [v |-> Undef, thrown |-> FALSE]
     ELSE IF TypeofFunction(tj) THEN [v |-> tj.ret, thrown |-> FALSE]
     ELSE [v |-> Undef, thrown |-> TRUE]

RECURSIVE StripDefaults(_, _, _)
\* Lines 87-89: names.forEach(k => { delete headers[k] })
StripDefaults(h, headers, names) ==
  IF names = << >> THEN h
  ELSE StripDefaults(DeleteField(h, headers.a, Head(names)), headers, Tail(names))

\* Lines 94-96: conf.data = JSON.parse(conf.data) when conf.data is a string.
\* [h, thrown]
ParseData(h, conf) ==
  LET d == Get(h, conf, "data")
  IN IF ~TypeofString(d) THEN [h |-> h, thrown |-> FALSE]
     ELSE IF d.kind = "json"
     THEN LET r == Alloc(h, d.t)
          IN [h |-> SetField(r[1], conf.a, "data", r[2]), thrown |-> FALSE]
     ELSE [h |-> h, thrown |-> TRUE]

\* The function axiosRequest(...paths) returns, applied to conf
axiosRequest(h, conf, ps) ==
  IF conf.kind = "undef" THEN Threw(h)
  ELSE
  LET tj == HeadersToJSON(h, conf)
  IN IF tj.thrown THEN Threw(h)
     ELSE
     LET \* line 81: ...toJSON?.() || {}
         h0 == IF Truthy(tj.v) THEN h ELSE Append(h, Literal(<< >>))
         logHeaders == IF Truthy(tj.v) THEN tj.v ELSE Ref(Len(h0))
         h1 == Append(h0, Literal(<< <<"method", Get(h, conf, "method")>>,
                                     <<"url", Get(h, conf, "url")>>,
                                     <<"headers", logHeaders>>,
                                     <<"params", Get(h, conf, "params")>> >>))
         log == Ref(Len(h1))
         \* line 86: const headers = { ...log.headers }
         h2 == Append(h1, Literal(Spread(h1, logHeaders)))
         headers == Ref(Len(h2))
         h3 == StripDefaults(h2, headers, axiosDefaultHeaders)
         \* line 91: log.headers = headers
         h4 == SetField(h3, log.a, "headers", headers)
         pd == ParseData(h4, conf)
     IN IF pd.thrown THEN Threw(pd.h)
        ELSE
        LET d == Get(pd.h, conf, "data")
        IN IF Truthy(d) /\ ObjectKeys(pd.h, d) # << >>
           THEN LET r == deepSanitizeObj(pd.h, d, ps)
                IN IF r.thrown THEN r
                   ELSE Returned(SetField(r.h, log.a, "data", r.v), log)
           ELSE Returned(pd.h, log)

\* The function axiosResponse(...paths) returns, applied to res
axiosResponse(h, res, ps) ==
  IF res.kind = "undef" THEN Threw(h)
  ELSE
  LET r == deepSanitizeObj(h, Get(h, res, "data"), ps)
      h1 == Append(r.h, Literal(<< <<"statusCode", Get(h, res, "status")>>,
                                   <<"headers", Get(h, res, "headers")>>,
                                   <<"body", r.v>> >>))
  IN IF r.thrown THEN r ELSE Returned(h1, Ref(Len(h1)))

\* The function expressRequest(...paths) returns, applied to req
expressRequest(h, req, ps) ==
  IF ~Truthy(req) \/ ~Truthy(Get(h, req, "socket")) THEN Returned(h, req)
  ELSE
  LET socket == Get(h, req, "socket")
      h1 == Append(h, Literal(<< <<"method", Get(h, req, "method")>>,
                                 <<"url", Get(h, req, "url")>>,
                                 <<"headers", Get(h, req, "headers")>>,
                                 <<"params", Get(h, req, "params")>>,
                                 <<"remoteAddress", Get(h, socket, "remoteAddress")>>,
                                 <<"remotePort", Get(h, socket, "remotePort")>> >>))
      log == Ref(Len(h1))
      body == Get(h, req, "body")
  IN IF Truthy(body) /\ ObjectKeys(h1, body) # << >>
     THEN LET r == deepSanitizeObj(h1, body, ps)
          IN IF r.thrown THEN r
             ELSE Returned(SetField(r.h, log.a, "body", r.v), log)
     ELSE Returned(h1, log)

\* The function expressResponse(...paths) returns, applied to res
expressResponse(h, res, ps) ==
  IF ~Truthy(res) \/ ~Truthy(Get(h, res, "statusCode")) THEN Returned(h, res)
  ELSE
  LET getHeaders == Get(h, res, "getHeaders")
      locals == Get(h, res, "locals")
  IN IF ~TypeofFunction(getHeaders) THEN Threw(h)
     ELSE
     LET h1 == Append(h, Literal(<< <<"statusCode", Get(h, res, "statusCode")>>,
                                    <<"headers", getHeaders.ret>> >>))
         log == Ref(Len(h1))
         body == Get(h, locals, "body")
     IN IF locals.kind = "undef" THEN Threw(h1)
        ELSE IF Truthy(body) /\ ObjectKeys(h1, body) # << >>
        THEN LET r == deepSanitizeObj(h1, body, ps)
             IN IF r.thrown THEN r
                ELSE Returned(SetField(r.h, log.a, "body", r.v), log)
        ELSE Returned(h1, log)

---------------------------------------------------------------------------
(* serializeErr and getFullErrorStack *)

\* A piece of a string: the stack trace, name or message of the i-th error
\* of a chain, or a literal of the code (i = 0).
Piece(p, i) == [p |-> p, i |-> i]
CausedBy == Piece("\nCaused by: ", 0)

\* The string of a string-valued property, "" when it is not a string.
StringOf(v) == IF v.kind = "text" THEN v.s ELSE << >>

\* ex.toString(): Error.prototype.toString for an error, Object's otherwise.
toString(h, ex) ==
  IF IsObj(h, ex) /\ h[ex.a].proto = "Error"
  THEN LET name == IF Get(h, ex, "name").kind = "undef"
                   THEN <<Piece("Error", 0)>>
                   ELSE StringOf(Get(h, ex, "name"))
           msg == StringOf(Get(h, ex, "message"))
       IN IF name = << >> THEN msg
          ELSE IF msg = << >> THEN name
          ELSE name \o <<Piece(": ", 0)>> \o msg
  ELSE IF ex.kind = "text" THEN ex.s
  ELSE <<Piece("[object Object]", 0)>>

\* Mutant of getFullErrorStack: the cause is appended without its own causes.
getFullErrorStackOneCause(h, ex, calls) ==
  LET stack == Get(h, ex, "stack")
      ret == IF Truthy(stack) THEN StringOf(stack) ELSE toString(h, ex)
      cause == Get(h, ex, "cause")
  IN IF Truthy(cause) /\ TypeofFunction(cause) /\ Truthy(cause.ret)
     THEN [s |-> ret \o <<CausedBy>> \o
                 (IF Truthy(Get(h, cause.ret, "stack"))
                  THEN StringOf(Get(h, cause.ret, "stack"))
                  ELSE toString(h, cause.ret)),
           thrown |-> FALSE]
     ELSE [s |-> ret, thrown |-> FALSE]

RECURSIVE getFullErrorStack(_, _, _)
\* getFullErrorStack(ex): the string, as its pieces. calls holds the errors
\* whose calls are in progress: the code has no guard against a cause that
\* leads back to one of them, the recursion then has no end and the engine
\* throws a RangeError (stack exhausted). [s, thrown]
getFullErrorStack(h, ex, calls) ==
  IF ex \in calls THEN [s |-> << >>, thrown |-> TRUE]
  ELSE
  LET stack == Get(h, ex, "stack")
      ret == IF Truthy(stack) THEN StringOf(stack) ELSE toString(h, ex)
      cause == Get(h, ex, "cause")
  IN IF Truthy(cause) /\ TypeofFunction(cause) /\ Truthy(cause.ret)
     THEN LET r == getFullErrorStack(h, cause.ret, calls \cup {ex})
          IN [s |-> ret \o <<CausedBy>> \o r.s, thrown |-> r.thrown]
     ELSE [s |-> ret, thrown |-> FALSE]

\* Mutant of serializeErr: the own fields are spread first, so the computed
\* stack, message and name replace them.
serializeErrComputedLast(h, err) ==
  IF ~Truthy(err) \/ ~Truthy(Get(h, err, "stack")) THEN Returned(h, err)
  ELSE
  LET st == getFullErrorStack(h, err, {})
      h1 == Append(h, Literal(Spread(h, err) \o
                              << <<"stack", Text(st.s)>>,
                                 <<"message", Get(h, err, "message")>>,
                                 <<"name", Get(h, err, "name")>> >>))
  IN IF st.thrown THEN Threw(h) ELSE Returned(h1, Ref(Len(h1)))

\* serializeErr(err)
serializeErr(h, err) ==
  IF ~Truthy(err) \/ ~Truthy(Get(h, err, "stack")) THEN Returned(h, err)
  ELSE
  LET st == getFullErrorStack(h, err, {})
      h1 == Append(h, Literal(<< <<"stack", Text(st.s)>>,
                                 <<"message", Get(h, err, "message")>>,
                                 <<"name", Get(h, err, "name")>> >> \o
                              Spread(h, err)))
  IN IF st.thrown THEN Threw(h) ELSE Returned(h1, Ref(Len(h1)))

\* defaultSerializers(...paths)[name], applied to d
defaultSerializers(h, name, d, ps) ==
  CASE name = "axios_req" -> axiosRequest(h, d, ps)
    [] name = "axios_res" -> axiosResponse(h, d, ps)
    [] name = "req" -> expressRequest(h, d, ps)
    [] name = "res" -> expressResponse(h, d, ps)
    [] name = "event" -> sanitized(h, d, ps)
    [] name = "err" -> serializeErr(h, d)

---------------------------------------------------------------------------
(* Inputs: payloads and path lists *)

\* Property names of generated payloads. "user.token" is one property name
\* that contains a dot.
Keys == {"user", "token", "user.token"}

\* An Error instance with a stack and one own enumerable property, token.
ErrorValue ==
  MkObj("Error", << <<"stack", Text(<<Piece("stack", 1)>>)>>,
                    <<"token", Num(1)>> >>, {"stack"})

\* How many objects and arrays the graph that t describes is built of.
Allocs(t) == Len(Alloc(<< >>, t)[1])

RECURSIVE GraphsOfSize(_, _), PropsOfSize(_, _, _), ElemsOfSize(_, _)

\* Every graph of size n that a caller can build from plain objects (their
\* properties in any order), arrays, the leaf 1, the Error instance (of size
\* two) and further references to an object or array built before, when k
\* objects and arrays were built before it. A reference to an object that
\* holds it closes a cycle; one to an object beside it shares that object.
GraphsOfSize(n, k) ==
  IF n < 1 THEN {}
  ELSE (IF n = 1 THEN {Num(1)} \cup {Link(a) : a \in 1..k} ELSE {})
       \cup (IF n = 2 THEN {ErrorValue} ELSE {})
       \cup {MkObj("Object", p, {}) : p \in PropsOfSize(n - 1, Keys, k + 1)}
       \cup {ArrNode(e) : e \in ElemsOfSize(n - 1, k + 1)}

\* Every property list with names of free whose values have size n in all.
PropsOfSize(n, free, k) ==
  IF n = 0 THEN {<< >>}
  ELSE UNION {UNION {{<< <<x[1], t>> >> \o p
                      : p \in PropsOfSize(n - x[2], free \ {x[1]}, k + Allocs(t))}
                     : t \in GraphsOfSize(x[2], k)}
              : x \in free \X (1..n)}

\* Every element list whose elements have size n in all.
ElemsOfSize(n, k) ==
  IF n = 0 THEN {<< >>}
  ELSE UNION {UNION {{<<t>> \o e : e \in ElemsOfSize(n - m, k + Allocs(t))}
                     : t \in GraphsOfSize(m, k)}
              : m \in 1..n}

\* The payloads of size up to n.
Payloads(n) == UNION {GraphsOfSize(m, 0) : m \in 1..n}

\* Values that are no object graph: undefined, 0 and "".
Scalars == {Undef, Num(0), Text(<< >>)}

\* The path lists: up to MaxPaths distinct path strings, in any order.
PathLists ==
  UNION {{ps \in [1..n -> PathStrings] :
            \A i, j \in 1..n : ps[i] = ps[j] => i = j}
         : n \in 0..MaxPaths}

---------------------------------------------------------------------------
(* Inputs: raw entities *)

RECURSIVE Shift(_, _)
\* The graph t built after d more objects and arrays.
Shift(t, d) ==
  CASE t.kind = "link" -> Link(t.a + d)
    [] t.kind = "obj" ->
         ObjNode(t.proto, [k \in DOMAIN t.f |-> Shift(t.f[k], d)], t.ks, t.ne)
    [] t.kind = "arr" -> ArrNode([i \in DOMAIN t.e |-> Shift(t.e[i], d)])
    [] OTHER -> t

RECURSIVE JsonValue(_)
\* t is what a JSON text denotes: plain objects, arrays and leaves, each
\* written once.
JsonValue(t) ==
  CASE t.kind = "obj" ->
         t.proto = "Object" /\ \A k \in DOMAIN t.f : JsonValue(t.f[k])
    [] t.kind = "arr" -> \A i \in DOMAIN t.e : JsonValue(t.e[i])
    [] OTHER -> t.kind = "num"

\* Bodies of requests and responses.
Bodies == UNION {GraphsOfSize(n, 0) : n \in 1..MaxBody}

\* The body that is the d-th object of its entity.
BodiesAt(d) == {Shift(b, d - 1) : b \in Bodies}

\* Header names, in the order a caller sets them.
HeaderNames == <<"common", "delete", "get", "head", "post", "put", "patch",
                 "Authorization", "token">>

\* The header mapping with the names of S: every header has the value 1.
HeaderMap(S) ==
  LET names == SelectSeq(HeaderNames, LAMBDA k : k \in S)
  IN Literal([i \in DOMAIN names |-> <<names[i], Num(1)>>])

HeaderMaps ==
  {HeaderMap(S) :
     S \in (SUBSET {"common", "patch", "Authorization"})
           \cup {Range(HeaderNames), {"token"}}}

\* conf.headers: left out, a plain mapping, or a headers object whose
\* toJSON() accessor yields the mapping (an AxiosHeaders instance).
AxiosHeaders(m) ==
  MkObj("AxiosHeaders",
        << <<"toJSON", Fn(m)>> >> \o
        [i \in DOMAIN m.ks |-> <<m.ks[i], m.f[m.ks[i]]>>],
        {"toJSON"})

ConfHeaders ==
  {Absent} \cup HeaderMaps \cup {AxiosHeaders(m) : m \in HeaderMaps}

\* conf.data / res.data: left out, a body, the JSON text of a body, "", a
\* string that is not JSON, or a function.
DataValues ==
  {Absent, BadJson, Text(<< >>), Fn(Undef)} \cup BodiesAt(2)
  \cup {Json(t) : t \in {b \in Bodies : JsonValue(b)}}

Params == {Absent, Literal(<< <<"token", Num(1)>> >>)}

AxiosConfig(d, hd, pa) ==
  Literal(<< <<"data", d>>,
             <<"method", Text(<<Piece("get", 0)>>)>>,
             <<"url", Text(<<Piece("/", 0)>>)>>,
             <<"headers", hd>>, <<"params", pa>> >>)

\* No config at all; every headers value, with no data or the data
\* {token: 1}; every data value, with no headers or the headers {token: 1}.
AxiosConfigs ==
  {Undef}
  \cup {AxiosConfig(d, hd, pa)
        : d \in {Absent, Literal(<< <<"token", Num(1)>> >>)},
          hd \in ConfHeaders, pa \in Params}
  \cup {AxiosConfig(d, hd, Absent)
        : d \in DataValues, hd \in {Absent, AxiosHeaders(HeaderMap({"token"}))}}

AxiosResponses ==
  {Undef} \cup
  {Literal(<< <<"data", d>>, <<"status", Num(200)>>, <<"headers", HeaderMap(S)>> >>)
   : S \in {{}, {"token"}}, d \in DataValues}

ExpressRequests ==
  {Undef, Num(0)} \cup
  {Literal(<< <<"body", b>>,
              <<"method", Text(<<Piece("get", 0)>>)>>,
              <<"url", Text(<<Piece("/", 0)>>)>>,
              <<"headers", HeaderMap(S)>>, <<"params", pa>>,
              <<"socket", so>> >>)
   : S \in {{}, {"token"}}, pa \in Params,
     so \in {Absent, Literal(<< <<"remoteAddress", Num(1)>>,
                                <<"remotePort", Num(1)>> >>)},
     b \in {Absent, Num(0)} \cup BodiesAt(2)}

ExpressResponses ==
  {Undef, Num(0)} \cup
  {MkObj("Object", << <<"locals", lo>>, <<"statusCode", sc>>,
                      <<"getHeaders", gh>> >>, {"getHeaders"})
   : sc \in {Absent, Num(0), Num(200)},
     gh \in {Absent, Fn(HeaderMap({})), Fn(HeaderMap({"token"}))},
     lo \in {Absent} \cup {Literal(<< <<"body", b>> >>)
                            : b \in {Absent, Num(0)} \cup BodiesAt(3)}}

\* The i-th error of a causal chain. An Error instance keeps stack, message
\* and cause out of its own enumerable properties and inherits name; an
\* object literal has them all as own enumerable properties.
ErrShapes == [proto : {"Error", "Object"}, stack : {"none", "empty", "set"}]

MkErr(sh, i, cause) ==
  MkObj(sh.proto,
        << <<"stack", CASE sh.stack = "none" -> Absent
                        [] sh.stack = "empty" -> Text(<< >>)
                        [] OTHER -> Text(<<Piece("stack", i)>>)>>,
           <<"message", Text(<<Piece("message", i)>>)>>,
           <<"name", IF sh.proto = "Error" THEN Text(<<Piece("name", i)>>) ELSE Absent>>,
           <<"cause", cause>> >>,
        IF sh.proto = "Error" THEN {"stack", "message", "name", "cause"} ELSE {})

\* What the cause of the last error of a chain is: left out, an accessor
\* that yields nothing, no function, or an accessor that yields the first
\* error of the chain again (a chain that is a cycle).
LastCauses == {Absent, Fn(Undef), Text(<<Piece("cause", 0)>>), Fn(Link(1))}

RECURSIVE ChainsFrom(_)
\* The errors E_i heading a causal chain E_i, ..., E_1.
ChainsFrom(i) ==
  IF i = 1
  THEN {MkErr(sh, 1, c) : sh \in ErrShapes, c \in LastCauses}
  ELSE {MkErr(sh, i, Fn(t)) : sh \in ErrShapes, t \in ChainsFrom(i - 1)}

ErrorChains == UNION {ChainsFrom(n) : n \in 1..MaxChain}

\* An error with one more own enumerable property, token.
WithToken(t) == Put(t, "token", Num(1))

Errors ==
  Scalars \cup {Literal(<< >>)} \cup ErrorChains
  \cup {WithToken(t) : t \in ErrorChains}

---------------------------------------------------------------------------
(* The state machine: a caller builds an entity, configures the serializers *)
(* with a path list and hands the entity to one of them.                    *)

InitWith(name, entities, pathLists) ==
  /\ fn = name
  /\ paths \in pathLists
  /\ \E g \in entities :
       /\ heap = Alloc(<< >>, g)[1]
       /\ data = Alloc(<< >>, g)[2]
  /\ pre = Deref(heap, data)
  /\ pc = "start"
  /\ out = Undef
  /\ out2 = Undef

InitEvent == InitWith("event", Payloads(MaxNodes) \cup Scalars, PathLists)

InitEntities ==
  \/ InitWith("axios_req", AxiosConfigs, PathLists)
  \/ InitWith("axios_res", AxiosResponses, PathLists)
  \/ InitWith("req", ExpressRequests, PathLists)
  \/ InitWith("res", ExpressResponses, PathLists)

\* The error serializer ignores the paths.
InitErr ==
  \/ InitWith("err", Errors, {<< >>, <<"token">>})
  \/ InitWith("flatten", ErrorChains, {<< >>})

Init == InitEvent \/ InitEntities \/ InitErr

\* The call defaultSerializers(...paths)[fn](data) returns or throws.
Call(r) ==
  /\ heap' = r.h
  /\ out' = r.v
  /\ pc' = IF r.thrown THEN "threw" ELSE "once"
  /\ UNCHANGED <<fn, data, paths, pre, out2>>

\* A second call, on the record the first one returned, returns or throws.
CallAgain(r) ==
  /\ heap' = r.h
  /\ out2' = r.v
  /\ pc' = IF r.thrown THEN "threw" ELSE "twice"
  /\ UNCHANGED <<fn, data, paths, pre, out>>

\* defaultSerializers(...paths).axios_req(data)
AxiosReq ==
  /\ pc = "start" /\ fn = "axios_req"
  /\ Call(axiosRequest(heap, data, paths))

\* defaultSerializers(...paths).axios_res(data)
AxiosRes ==
  /\ pc = "start" /\ fn = "axios_res"
  /\ Call(axiosResponse(heap, data, paths))

\* defaultSerializers(...paths).req(data)
Req ==
  /\ pc = "start" /\ fn = "req"
  /\ Call(expressRequest(heap, data, paths))

\* defaultSerializers(...paths).res(data)
Res ==
  /\ pc = "start" /\ fn = "res"
  /\ Call(expressResponse(heap, data, paths))

\* defaultSerializers(...paths).event(data)
Event ==
  /\ pc = "start" /\ fn = "event"
  /\ Call(sanitized(heap, data, paths))

\* defaultSerializers(...paths).err(data)
Err ==
  /\ pc = "start" /\ fn = "err"
  /\ Call(serializeErr(heap, data))

\* event(event(data)): the record of the first call is serialized again.
EventAgain ==
  /\ pc = "once" /\ fn = "event"
  /\ CallAgain(sanitized(heap, out, paths))

\* getFullErrorStack(ex), as serializeErr and getFullErrorStack itself call
\* it: on a value that is not undefined.
Flatten ==
  /\ pc = "start" /\ fn = "flatten"
  /\ LET r == getFullErrorStack(heap, data, {})
     IN /\ out' = IF r.thrown THEN Undef ELSE Text(r.s)
        /\ pc' = IF r.thrown THEN "threw" ELSE "once"
  /\ UNCHANGED <<heap, fn, data, paths, pre, out2>>

NextEvent == Event \/ EventAgain
NextEntities == AxiosReq \/ AxiosRes \/ Req \/ Res
NextErr == Err \/ Flatten
Next == NextEvent \/ NextEntities \/ NextErr

\* All six serializers.
Spec == Init /\ [][Next]_vars
\* The event serializer, sanitized(...paths), alone.
SpecEvent == InitEvent /\ [][NextEvent]_vars
\* The four entity normalizers.
SpecEntities == InitEntities /\ [][NextEntities]_vars
\* The error serializer and its stack flattener.
SpecErr == InitErr /\ [][NextErr]_vars

---------------------------------------------------------------------------
(* Notions the claims about sanitize are stated with *)

RECURSIVE Reaches(_, _, _)
\* Following key chain c from node v of heap h reaches a present value.
Reaches(h, v, c) ==
  \/ c = << >>
  \/ /\ IsObj(h, v)
     /\ Head(c) \in DOMAIN h[v.a].f
     /\ Reaches(h, h[v.a].f[Head(c)], Tail(c))

RECURSIVE Visited(_, _)
\* The nodes the traversal visits from v: v itself and, through the
\* properties of plain objects and the elements of arrays, their descendants.
Visited(h, v) ==
  {v} \cup
  (IF isPlainObject(h, v)
   THEN UNION {Visited(h, h[v.a].f[k]) : k \in Range(ObjectKeys(h, v))}
   ELSE IF IsArr(h, v)
   THEN UNION {Visited(h, h[v.a].e[i]) : i \in DOMAIN h[v.a].e}
   ELSE {})

\* Some path of ps still matches at some visited node below v.
RemainingMatch(h, v, ps) ==
  \E n \in Visited(h, v) : \E i \in DOMAIN ps :
    Reaches(h, n, stringToPath(ps[i]))

RECURSIVE RefsOf(_)
\* The addresses value v holds.
RefsOf(v) ==
  CASE v.kind = "ref" -> {v.a}
    [] v.kind = "fn" -> RefsOf(v.ret)
    [] OTHER -> {}

\* The places of node n that hold a value, and the value at place x.
Slots(n) == IF n.kind = "obj" THEN DOMAIN n.f ELSE DOMAIN n.e
SlotValue(n, x) == IF n.kind = "obj" THEN n.f[x] ELSE n.e[x]

RECURSIVE Reach(_, _)
\* The addresses of S and all that can be reached from them.
Reach(h, S) ==
  LET T == S \cup UNION {UNION {RefsOf(SlotValue(h[a], x)) : x \in Slots(h[a])}
                         : a \in S}
  IN IF T = S THEN S ELSE Reach(h, T)

\* The objects and arrays value v is built of.
Addrs(h, v) == Reach(h, RefsOf(v))

\* No object or array of v is reached by two routes: v is a tree.
Unshared(h, v) ==
  \A b \in Addrs(h, v) :
    Cardinality({e \in UNION {{<<a, x>> : x \in Slots(h[a])} : a \in Addrs(h, v)} :
                   b \in RefsOf(SlotValue(h[e[1]], e[2]))})
      = IF b \in RefsOf(v) THEN 0 ELSE 1

\* The key chains of the paths ps.
Chains(ps) == {stringToPath(ps[i]) : i \in DOMAIN ps}

RECURSIVE PlainTree(_)
\* Tree t is the deep content of an acyclic graph built from plain objects,
\* arrays and leaves only.
PlainTree(t) ==
  CASE t.kind = "obj" ->
         t.proto = "Object" /\ \A k \in DOMAIN t.f : PlainTree(t.f[k])
    [] t.kind = "arr" -> \A i \in DOMAIN t.e : PlainTree(t.e[i])
    [] OTHER -> t.kind # "back"

RECURSIVE Preserved(_, _, _, _)
\* Tree r keeps everything of tree x that is not the terminal of a chain
\* matched at a visited node, and nothing of it is altered. act holds the
\* chains that may end or continue at this node: the chains of the paths
\* when the node is visited, and the rests of chains begun at an ancestor.
Preserved(x, r, ps, act) ==
  /\ r.kind = x.kind
  /\ CASE x.kind = "obj" ->
            /\ r.proto = x.proto
            /\ \A k \in DOMAIN x.f :
              \/ <<k>> \in act
              \/ /\ k \in DOMAIN r.f
                 /\ Preserved(x.f[k], r.f[k], ps,
                      {Tail(c) : c \in {d \in act : Len(d) > 1 /\ Head(d) = k}}
                      \cup (IF x.f[k].kind = "obj" /\ x.f[k].proto = "Object"
                            THEN Chains(ps) ELSE {}))
       [] x.kind = "arr" ->
            /\ Len(r.e) = Len(x.e)
            /\ \A i \in DOMAIN x.e :
                 Preserved(x.e[i], r.e[i], ps,
                           IF x.e[i].kind = "obj" /\ x.e[i].proto = "Object"
                           THEN Chains(ps) ELSE {})
       [] OTHER -> r = x

---------------------------------------------------------------------------
(* Claims about sanitize (the event serializer) *)

\* C2: after sanitize(x, P) no path of P matches at any visited node of the
\* result: following the path's key chain from the node reaches nothing.
C2_NoRemainingMatch ==
  (fn = "event" /\ pc = "once" /\ PlainTree(pre)) => ~RemainingMatch(heap, out, paths)

\* C3: sanitize(x, P) leaves x deep-equal to its state before the call, also
\* when a path matched and was removed from the result.
C3_InputUnchanged ==
  (fn = "event" /\ pc \in {"once", "twice"}) => Deref(heap, data) = pre

\* C8: sanitize(sanitize(x, P), P) is deep-equal to sanitize(x, P).
C8_Idempotent ==
  (fn = "event" /\ pc = "twice") => Deref(heap, out2) = Deref(heap, out)

\* C9: sanitize removes nothing but the terminals of matched paths: every
\* other key and element of x is in the result, with a deep-equal value.
C9_OnlyTerminalsRemoved ==
  (fn = "event" /\ pc = "once") =>
    Preserved(pre, Deref(heap, out), paths,
              IF pre.kind = "obj" /\ pre.proto = "Object"
              THEN Chains(paths) ELSE {})

\* The model agrees with C2, C3 and C8 on every acyclic payload that is built
\* from plain objects, arrays and leaves and none of whose property names
\* holds a dot, and with C9 on those of them that are trees.
RECURSIVE Dotted(_)
Dotted(t) ==
  CASE t.kind = "obj" ->
         \E k \in DOMAIN t.f : Len(stringToPath(k)) > 1 \/ Dotted(t.f[k])
    [] t.kind = "arr" -> \E i \in DOMAIN t.e : Dotted(t.e[i])
    [] OTHER -> FALSE

SanitizePlainUndotted ==
  (fn = "event" /\ PlainTree(pre) /\ ~Dotted(pre)) =>
    /\ pc # "threw"
    /\ C2_NoRemainingMatch /\ C3_InputUnchanged /\ C8_Idempotent
    /\ Unshared(heap, data) => C9_OnlyTerminalsRemoved

---------------------------------------------------------------------------
(* Claims about the serializers as a whole *)

Serializers == {"axios_req", "axios_res", "req", "res", "event", "err"}
Normalizers == {"axios_req", "axios_res", "req", "res", "event"}

\* C1: whatever serializer of defaultSerializers(P) an entity is handed to,
\* the returned record holds no value reachable by the key chain of a path
\* of P at any of its nodes (body, data, headers, params, error fields).
C1_NoSensitiveValueReturned ==
  (fn \in Serializers /\ pc = "once") => ~RemainingMatch(heap, out, paths)

\* C4: every entity normalizer leaves the raw entity it receives unchanged,
\* the data field of an outbound request holding a JSON string included.
C4_EntityUnchanged ==
  (fn \in Normalizers /\ pc # "start") => Deref(heap, data) = pre

\* The entity lacks the shape marker its normalizer expects.
LacksMarker ==
  CASE fn \in {"axios_req", "axios_res"} -> pre.kind # "obj"
    [] fn = "req" -> pre.kind # "obj" \/ "socket" \notin DOMAIN pre.f
    [] fn = "res" -> pre.kind # "obj" \/ "statusCode" \notin DOMAIN pre.f
    [] OTHER -> FALSE

\* C5: no entity normalizer ever throws, and an input that lacks the shape
\* marker is returned as it is.
C5_GuardedNeverThrows ==
  fn \in Normalizers =>
    /\ pc # "threw"
    /\ (pc = "once" /\ LacksMarker) => (out = data /\ Deref(heap, data) = pre)

---------------------------------------------------------------------------
(* Claims about the outbound-request headers, under SpecEntities *)

\* The headers the caller set on the request.
RequestHeaders ==
  IF "headers" \in DOMAIN pre.f
  THEN [k \in DOMAIN pre.f.headers.f \ {"toJSON"} |-> pre.f.headers.f[k]]
  ELSE NoFields

\* What the toJSON() accessor of the request's headers yields; nothing when
\* the headers are left out or have no accessor.
AccessorHeaders ==
  IF "headers" \in DOMAIN pre.f /\ "toJSON" \in DOMAIN pre.f.headers.f
  THEN pre.f.headers.f.toJSON.ret.f
  ELSE NoFields

SevenDefaults == {"common", "delete", "get", "head", "post", "put", "patch"}
Without(f, ks) == [k \in DOMAIN f \ ks |-> f[k]]

\* C6 as stated: the headers of the record are the request's headers with
\* exactly the seven transport-default group names removed.
C6_HeadersOfRequestStripped ==
  (fn = "axios_req" /\ pc = "once") =>
    Deref(heap, out).f.headers = Obj(Without(RequestHeaders, SevenDefaults))

\* C6 amended: the headers of the record are what the toJSON() accessor of
\* the request's headers yields with exactly the seven names removed, and
\* the empty mapping when the headers are left out or have no accessor;
\* none of the seven names is ever a key of them.
C6_AccessorHeadersStripped ==
  (fn = "axios_req" /\ pc = "once") =>
    /\ Deref(heap, out).f.headers = Obj(Without(AccessorHeaders, SevenDefaults))
    /\ DOMAIN Deref(heap, out).f.headers.f \cap SevenDefaults = {}

\* Headers with a common group, a patch group and Authorization come out as
\* Authorization alone.
C6_Witness ==
  /\ fn = "axios_req" /\ pc = "once"
  /\ DOMAIN AccessorHeaders = {"common", "patch", "Authorization"}
  /\ DOMAIN Deref(heap, out).f.headers.f = {"Authorization"}

---------------------------------------------------------------------------
(* Claims about errors, under SpecErr *)

\* The string representation of error t.
StringRep(t) ==
  IF t.proto = "Error"
  THEN t.f.name.s \o <<Piece(": ", 0)>> \o t.f.message.s
  ELSE <<Piece("[object Object]", 0)>>

\* base(E): the stack string of t if it has one (not empty), else its
\* string representation.
Base(t) ==
  IF "stack" \in DOMAIN t.f /\ t.f.stack.s # << >>
  THEN t.f.stack.s ELSE StringRep(t)

\* t has a cause accessor that yields an error.
YieldsCause(t) ==
  /\ "cause" \in DOMAIN t.f
  /\ t.f.cause.kind = "fn"
  /\ t.f.cause.ret.kind = "obj"

RECURSIVE ChainOf(_)
\* The causal chain E_n, ..., E_1 headed by t.
ChainOf(t) ==
  IF YieldsCause(t) THEN <<t>> \o ChainOf(t.f.cause.ret) ELSE <<t>>

RECURSIVE Joined(_)
\* base(E_n) + "\nCaused by: " + ... + "\nCaused by: " + base(E_1)
Joined(chain) ==
  IF Len(chain) = 1 THEN Base(chain[1])
  ELSE Base(chain[1]) \o <<CausedBy>> \o Joined(Tail(chain))

\* The pieces of s that come from the i-th error.
PiecesOf(s, i) == LET From(p) == p.i = i IN SelectSeq(s, From)

\* C7: flatten(E_n) is base(E_n) followed, for each further error of the
\* chain in order, by "\nCaused by: " and its base; every error of the chain
\* contributes exactly once.
C7_FlattenJoinsChain ==
  (fn = "flatten" /\ pc = "once") =>
    LET chain == ChainOf(pre)
        n == Len(chain)
    IN /\ out = Text(Joined(chain))
       /\ Len(PiecesOf(out.s, 0)) >= n - 1
       /\ \A j \in 1..n :
            LET i == n + 1 - j
            IN PiecesOf(out.s, i) = PiecesOf(Base(chain[j]), i)

\* A chain of three errors was flattened.
C7_Witness ==
  /\ fn = "flatten" /\ pc = "once"
  /\ Len(ChainOf(pre)) = 3
  /\ Len(SelectSeq(out.s, LAMBDA p : p = CausedBy)) = 2

\* The own enumerable properties of error tree t.
Own(t) == DOMAIN t.f \ t.ne
PropOf(t, k) == IF k \in DOMAIN t.f THEN t.f[k] ELSE Undef

\* serializeErr passes the error through: it is falsy or has no stack.
PassedThrough ==
  \/ pre.kind # "obj"
  \/ "stack" \notin DOMAIN pre.f
  \/ pre.f.stack.s = << >>

\* C10: serializeErr(error) returns error itself, unchanged, when it is falsy
\* or has no stack; otherwise a new record of stack = flatten(error),
\* message, name and the own enumerable fields of error, which are applied
\* last and replace the computed stack, message and name.
C10_SerializeErr ==
  (fn = "err" /\ pc = "once") =>
    /\ Deref(heap, data) = pre
    /\ IF PassedThrough THEN out = data
       ELSE /\ IsObj(heap, out)
            /\ out.a \notin Addrs(heap, data)
            /\ LET rec == Deref(heap, out)
               IN /\ DOMAIN rec.f = {"stack", "message", "name"} \cup Own(pre)
                  /\ rec.ne = {}
                  /\ \A k \in Own(pre) : rec.f[k] = pre.f[k]
                  /\ "stack" \notin Own(pre) =>
                       rec.f.stack = Text(Joined(ChainOf(pre)))
                  /\ "message" \notin Own(pre) =>
                       rec.f.message = PropOf(pre, "message")
                  /\ "name" \notin Own(pre) =>
                       rec.f.name = PropOf(pre, "name")

\* An error with an own enumerable stack and a cause was serialized: the
\* record holds the error's own stack, not the flattened chain.
C10_Witness ==
  /\ fn = "err" /\ pc = "once"
  /\ ~PassedThrough
  /\ "stack" \in Own(pre)
  /\ Len(ChainOf(pre)) > 1
  /\ Deref(heap, out).f.stack = pre.f.stack
  /\ Deref(heap, out).f.stack # Text(Joined(ChainOf(pre)))

====
